---- MODULE Spec2Model ----
(***************************************************************************)
(* kitsugi: a content-addressable store for JSON documents.                *)
(*                                                                         *)
(* Strings are sequences of one-character strings, so that concatenation,  *)
(* suffix tests, decimal conversion and code-point ordering are computed   *)
(* as Python computes them.  A JSON value is a record                      *)
(*   [kind, prim, keys, kids]                                              *)
(* with kind "prim" | "dict" | "list"; a dict keeps its member names in    *)
(* file order in keys and the member values in kids.                       *)
(***************************************************************************)
EXTENDS Integers, Sequences, FiniteSets, TLC

VARIABLES
    fs,                 \* the target directory: file name -> file content
    hash_index,         \* table hash_index: rows <<hash, location>> in rowid order
    hash_graph,         \* table hash_graph: rows <<parent_hash, child_key, child_hash>>
    hash_to_data,       \* table hash_to_data: rows <<hash, data>>, hash PRIMARY KEY
    reconstructed_docs, \* table reconstructed_docs: rows <<doc_name, root_hash>>
    out,                \* what the last call returned / printed / raised
    txn                 \* the call that is running step by step. An ingest: its
                        \* step, the files walked, the visitor calls so far, the
                        \* uncommitted relations. A path search: its parent_hash,
                        \* queue and visited set

vars == <<fs, hash_index, hash_graph, hash_to_data, reconstructed_docs, out, txn>>

(***************************************************************************)
(* Strings                                                                 *)
(***************************************************************************)

\* Printable ASCII in code-point order, starting at code point 32.
Ascii ==
    <<" ", "!", "\"", "#", "$", "%", "&", "'", "(", ")", "*", "+", ",", "-", ".", "/",
      "0", "1", "2", "3", "4", "5", "6", "7", "8", "9", ":", ";", "<", "=", ">", "?",
      "@", "A", "B", "C", "D", "E", "F", "G", "H", "I", "J", "K", "L", "M", "N", "O",
      "P", "Q", "R", "S", "T", "U", "V", "W", "X", "Y", "Z", "[", "\\", "]", "^", "_",
      "(backtick)", "a", "b", "c", "d", "e", "f", "g", "h", "i", "j", "k", "l", "m", "n", "o",
      "p", "q", "r", "s", "t", "u", "v", "w", "x", "y", "z", "{", "|", "}", "~">>

Ord(c) == 31 + (CHOOSE i \in 1..Len(Ascii) : Ascii[i] = c)

Digits == <<"0", "1", "2", "3", "4", "5", "6", "7", "8", "9">>

DigitSet == {Digits[i] : i \in 1..10}

DigitVal(c) == (CHOOSE i \in 1..10 : Digits[i] = c) - 1

\* Python's s < t on str: code-point lexicographic order.
RECURSIVE StrLess(_, _)
StrLess(s, t) ==
    IF t = <<>> THEN FALSE
    ELSE IF s = <<>> THEN TRUE
    ELSE IF Head(s) = Head(t) THEN StrLess(Tail(s), Tail(t))
    ELSE Ord(Head(s)) < Ord(Head(t))

\* s.endswith(suffix)
EndsWith(s, suffix) ==
    /\ Len(s) >= Len(suffix)
    /\ SubSeq(s, Len(s) - Len(suffix) + 1, Len(s)) = suffix

\* s.isdigit(), on ASCII: non-empty and every character a decimal digit.
IsDigit(s) == s # <<>> /\ \A i \in 1..Len(s) : s[i] \in DigitSet

\* int(s) for a string of decimal digits.
RECURSIVE StrToInt(_)
StrToInt(s) ==
    IF s = <<>> THEN 0
    ELSE 10 * StrToInt(SubSeq(s, 1, Len(s) - 1)) + DigitVal(s[Len(s)])

\* str(n) for n >= 0.
RECURSIVE IntToStr(_)
IntToStr(n) ==
    IF n < 10 THEN <<Digits[n + 1]>>
    ELSE IntToStr(n \div 10) \o <<Digits[(n % 10) + 1]>>

\* sep.join(parts)
RECURSIVE Join(_, _)
Join(parts, sep) ==
    IF parts = <<>> THEN <<>>
    ELSE IF Len(parts) = 1 THEN parts[1]
    ELSE parts[1] \o sep \o Join(Tail(parts), sep)

\* sorted(S) for a finite set of strings.
MinStr(S) == CHOOSE x \in S : \A y \in S \ {x} : StrLess(x, y)

RECURSIVE SortedStrs(_)
RECURSIVE SortedFrom(_, _)
SortedFrom(S, m) == <<m>> \o SortedStrs(S \ {m})

SortedStrs(S) == IF S = {} THEN <<>> ELSE SortedFrom(S, MinStr(S))

Range(s) == {s[i] : i \in 1..Len(s)}

(***************************************************************************)
(* JSON values                                                             *)
(***************************************************************************)

NoPrim == [t |-> "none", v |-> <<>>]

PInt(digits) == [t |-> "int", v |-> digits]
PBool(b) == [t |-> "bool", v |-> IF b THEN <<"1">> ELSE <<"0">>]
PStr(s) == [t |-> "str", v |-> s]
PNull == [t |-> "null", v |-> <<>>]

Prim(p) == [kind |-> "prim", prim |-> p, keys |-> <<>>, kids |-> <<>>]
Dict(ks, vs) == [kind |-> "dict", prim |-> NoPrim, keys |-> ks, kids |-> vs]
List(vs) == [kind |-> "list", prim |-> NoPrim, keys |-> <<>>, kids |-> vs]

IsComposite(node) == node.kind \in {"dict", "list"}

\* Python's dict-key identity of a scalar: True == 1 and False == 0 hash and
\* compare equal, so a bool and an int of the same value are one key.
PyKey(p) ==
    IF p.t \in {"int", "bool"} THEN <<"number">> \o p.v
    ELSE IF p.t = "str" THEN <<"str">> \o p.v
    ELSE <<"None">>

\* JSON string escaping of the two characters that need a backslash.
RECURSIVE Escape(_)
Escape(s) ==
    IF s = <<>> THEN <<>>
    ELSE (IF Head(s) \in {"\"", "\\"} THEN <<"\\", Head(s)>> ELSE <<Head(s)>>)
         \o Escape(Tail(s))

RECURSIVE Unescape(_)
Unescape(s) ==
    IF s = <<>> THEN <<>>
    ELSE IF Head(s) = "\\" /\ Len(s) >= 2 THEN <<s[2]>> \o Unescape(SubSeq(s, 3, Len(s)))
    ELSE <<Head(s)>> \o Unescape(Tail(s))

\* json.dumps(node, ensure_ascii=False) of a scalar.
json_dumps(p) ==
    CASE p.t = "int"  -> p.v
      [] p.t = "bool" -> IF p.v = <<"1">> THEN <<"t", "r", "u", "e">>
                         ELSE <<"f", "a", "l", "s", "e">>
      [] p.t = "str"  -> <<"\"">> \o Escape(p.v) \o <<"\"">>
      [] OTHER        -> <<"n", "u", "l", "l">>

\* json.loads(text) of a scalar's serialization.
json_loads(text) ==
    IF text # <<>> /\ Head(text) = "\"" THEN PStr(Unescape(SubSeq(text, 2, Len(text) - 1)))
    ELSE IF text = <<"t", "r", "u", "e">> THEN PBool(TRUE)
    ELSE IF text = <<"f", "a", "l", "s", "e">> THEN PBool(FALSE)
    ELSE IF text = <<"n", "u", "l", "l">> THEN PNull
    ELSE PInt(text)

(***************************************************************************)
(* hashing.py: the canonical hasher and its visitors                       *)
(***************************************************************************)

HASH_KEY == <<"_", "s", "h", "a", "2", "5", "6", "_", "h", "a", "s", "h">>

\* SHA-256 is taken to be collision-free: the digest is an injective image of
\* the hashed text, written as the text between a pair of brackets.
sha256_hash(text) == <<"<">> \o text \o <<">">>

\* One call visitor.visit(...).  positional counts the arguments passed by
\* position; parent_hash = <<>> and child_key_given = FALSE stand for the
\* defaults parent_hash=None, child_key=None.
VisitCall(h, node, loc, isprim, npos, parent, given, key) ==
    [hash_val |-> h, node |-> node, location_str |-> loc, is_primitive |-> isprim,
     positional |-> npos, parent_hash |-> parent, child_key_given |-> given,
     child_key |-> key]

EmptyMemo == [comp |-> {}, prim |-> {}]

\* node_id in memo_cache: a dict or list is keyed by id(), which within one
\* parsed document is its position addr; a scalar is keyed by its value.
MemoHit(memo, node, addr) ==
    IF IsComposite(node) THEN \E e \in memo.comp : e[1] = addr
    ELSE \E e \in memo.prim : e[1] = PyKey(node.prim)

MemoGet(memo, node, addr) ==
    IF IsComposite(node) THEN (CHOOSE e \in memo.comp : e[1] = addr)[2]
    ELSE (CHOOSE e \in memo.prim : e[1] = PyKey(node.prim))[2]

MemoPut(memo, node, addr, h) ==
    IF IsComposite(node) THEN [memo EXCEPT !.comp = @ \cup {<<addr, h>>}]
    ELSE [memo EXCEPT !.prim = @ \cup {<<PyKey(node.prim), h>>}]

\* LiveMembers without the pop: every member is hashed.
LiveMembers_NoPop(node) == 1..Len(node.keys)

\* The members of a dict after sub_node.pop(HASH_KEY, None), as positions.
LiveMembers(node) == {i \in 1..Len(node.keys) : node.keys[i] # HASH_KEY}

MemberAt(node, k) == CHOOSE i \in LiveMembers(node) : node.keys[i] = k

\* for key in sorted(sub_node.keys()): each child with its key, its node, its
\* jq path and its position in the dict.
DictChildren(node, path, ks) ==
    [j \in 1..Len(ks) |->
        [key |-> ks[j], node |-> node.kids[MemberAt(node, ks[j])],
         path |-> path \o <<".">> \o ks[j], at |-> MemberAt(node, ks[j])]]

\* for i, item in enumerate(sub_node)
ListChildren(node, path) ==
    [j \in 1..Len(node.kids) |->
        [key |-> IntToStr(j - 1), node |-> node.kids[j],
         path |-> path \o <<".", "[">> \o IntToStr(j - 1) \o <<"]">>, at |-> j]]

\* ChildList without sorted(): the members in file order.
ChildList_FileOrder(node, path) ==
    IF node.kind = "dict"
    THEN DictChildren(node, path, SelectSeq(node.keys, LAMBDA k : k # HASH_KEY))
    ELSE ListChildren(node, path)

ChildList(node, path) ==
    IF node.kind = "dict"
    THEN DictChildren(node, path, SortedStrs({node.keys[i] : i \in LiveMembers(node)}))
    ELSE ListChildren(node, path)

\* The canonical string of a composite from its children and their hashes.
CanonicalString(kind, children, hashes) ==
    IF kind = "dict"
    THEN <<"{", " ">>
         \o Join([j \in 1..Len(children) |-> children[j].key \o <<":">> \o hashes[j]],
                 <<",", " ">>)
         \o <<" ", "}">>
    ELSE <<"[", " ">> \o Join(hashes, <<",", " ">>) \o <<" ", "]">>

\* child_location of the j-th child.
ChildLocation(file, kind, sub_jq_path, key) ==
    IF kind = "dict"
    THEN file \o <<":">> \o sub_jq_path \o <<".">> \o key
    ELSE file \o <<":">> \o sub_jq_path \o <<".", "[">> \o key \o <<"]">>

\* The visits a composite makes once its hash is known: itself, then each
\* child with the parent's hash and the child key.
CompositeVisits(file, sub_node, sub_jq_path, children, hashes, parent_hash) ==
    <<VisitCall(parent_hash, sub_node, file \o <<":">> \o sub_jq_path, FALSE, 3,
                <<>>, FALSE, <<>>)>>
    \o [j \in 1..Len(children) |->
           VisitCall(hashes[j], children[j].node,
                     ChildLocation(file, sub_node.kind, sub_jq_path, children[j].key),
                     ~IsComposite(children[j].node), 4, parent_hash, TRUE,
                     children[j].key)]

\* The end of the dict / list branch: visit, store in memo_cache, return.
CompositeResult(file, sub_node, sub_jq_path, addr, children, r, parent_hash) ==
    [hash |-> parent_hash,
     memo |-> MemoPut(r.memo, sub_node, addr, parent_hash),
     calls |-> r.calls
               \o CompositeVisits(file, sub_node, sub_jq_path, children, r.hashes,
                                  parent_hash)]

CompositeHashed(file, sub_node, sub_jq_path, addr, children, r) ==
    CompositeResult(file, sub_node, sub_jq_path, addr, children, r,
                    sha256_hash(CanonicalString(sub_node.kind, children, r.hashes)))

\* The else branch: a primitive is hashed and cached, and not visited.
PrimitiveResult(sub_node, addr, memo, calls, parent_hash) ==
    [hash |-> parent_hash,
     memo |-> MemoPut(memo, sub_node, addr, parent_hash),
     calls |-> calls]

RECURSIVE hash_recursive(_, _, _, _, _, _)
RECURSIVE HashChildren(_, _, _, _, _, _, _)
RECURSIVE HashNext(_, _, _, _, _, _)

\* One step of the loop over the children: r is the recursive call's result.
HashNext(file, children, addr, i, hashes, r) ==
    HashChildren(file, children, addr, r.memo, r.calls, i + 1, Append(hashes, r.hash))

\* The loop over the children of one composite: the child hashes in order,
\* with the memo cache and the visitor calls as left by the recursive calls.
HashChildren(file, children, addr, memo, calls, i, hashes) ==
    IF i > Len(children) THEN [hashes |-> hashes, memo |-> memo, calls |-> calls]
    ELSE HashNext(file, children, addr, i, hashes,
                  hash_recursive(file, children[i].node, children[i].path,
                                 addr \o <<children[i].at>>, memo, calls))

HashComposite(file, sub_node, sub_jq_path, addr, memo, calls, children) ==
    CompositeHashed(file, sub_node, sub_jq_path, addr, children,
                    HashChildren(file, children, addr, memo, calls, 1, <<>>))

hash_recursive(file, sub_node, sub_jq_path, addr, memo, calls) ==
    IF MemoHit(memo, sub_node, addr) THEN
        [hash |-> MemoGet(memo, sub_node, addr), memo |-> memo, calls |-> calls]
    ELSE IF IsComposite(sub_node) THEN
        HashComposite(file, sub_node, sub_jq_path, addr, memo, calls,
                      ChildList(sub_node, sub_jq_path))
    ELSE
        PrimitiveResult(sub_node, addr, memo, calls,
                        sha256_hash(json_dumps(sub_node.prim)))

\* calculate_canonical_hash(node, visitor, file_path_str): the root fingerprint
\* and the visitor calls the traversal makes, in order.
calculate_canonical_hash(node, file_path_str) ==
    hash_recursive(file_path_str, node, <<".">>, <<>>, EmptyMemo, <<>>)

\* The document as the traversal leaves it in memory: HASH_KEY popped from
\* every dict the traversal entered.
\* The positions in live, ascending.
Ascending(live) ==
    [j \in 1..Cardinality(live) |->
        CHOOSE i \in live : Cardinality({m \in live : m < i}) = j - 1]

RECURSIVE Stripped(_)
RECURSIVE StrippedDict(_, _)
StrippedDict(node, idx) ==
    Dict([j \in 1..Len(idx) |-> node.keys[idx[j]]],
         [j \in 1..Len(idx) |-> Stripped(node.kids[idx[j]])])

Stripped(node) ==
    IF node.kind = "dict" THEN StrippedDict(node, Ascending(LiveMembers(node)))
    ELSE IF node.kind = "list" THEN
        List([j \in 1..Len(node.kids) |-> Stripped(node.kids[j])])
    ELSE node

\* WriteContextVisitor: the three batches after the given calls.
EmptyBatches == [index_data |-> <<>>, graph_data |-> <<>>, primitive_data |-> <<>>]

WriteContextVisitor_visit(v, c) ==
    [index_data |-> Append(v.index_data, <<c.hash_val, c.location_str>>),
     graph_data |->
        IF c.parent_hash # <<>> /\ c.child_key_given
        THEN Append(v.graph_data, <<c.parent_hash, c.child_key, c.hash_val>>)
        ELSE v.graph_data,
     primitive_data |->
        IF c.is_primitive
        THEN Append(v.primitive_data, <<c.hash_val, json_dumps(c.node.prim)>>)
        ELSE v.primitive_data]

RECURSIVE WriteVisitAll(_, _)
WriteVisitAll(v, calls) ==
    IF calls = <<>> THEN v
    ELSE WriteVisitAll(WriteContextVisitor_visit(v, Head(calls)), Tail(calls))

\* AnalysisVisitor.visit(self, hash_val, **kwargs) takes one positional
\* argument; a call passing more raises TypeError.
AnalysisVisitor_raises(c) == c.positional > 1

\* An AnalysisVisitor driven by the traversal: the hash_set collected, and
\* whether a call raised (which ends the traversal at that call).
RECURSIVE AnalysisVisitAll(_, _)
AnalysisVisitAll(hash_set, calls) ==
    IF calls = <<>> THEN [hash_set |-> hash_set, raised |-> FALSE]
    ELSE IF AnalysisVisitor_raises(Head(calls)) THEN [hash_set |-> hash_set, raised |-> TRUE]
    ELSE AnalysisVisitAll(hash_set \cup {Head(calls).hash_val}, Tail(calls))

(***************************************************************************)
(* database.py: the Repository.  A table is the sequence of its rows in    *)
(* rowid order; a row is the tuple of its columns in schema order.         *)
(***************************************************************************)

\* execute({'type': 'QUERY', 'where': {column, '=', value}}): the matching rows.
QueryEq(table, column, value) == SelectSeq(table, LAMBDA row : row[column] = value)

\* _build_where_clause for operator IN: an empty list is the clause "0=1".
QueryIn(table, column, values) ==
    IF values = {} THEN <<>>
    ELSE SelectSeq(table, LAMBDA row : row[column] \in values)

\* _build_where_clause(where_data) for operator IN, val a list: the clause
\* and its parameters.
build_where_clause(column, val) ==
    IF val = <<>> THEN [clause |-> "0=1", column |-> column, params |-> <<>>]
    ELSE [clause |-> "IN", column |-> column, params |-> val]

\* A where clause that holds of every row when it has no parameter.
WhereHolds_EmptyMatches(where, row) ==
    where.params = <<>> \/ row[where.column] \in Range(where.params)

\* The value of the clause for a row.
WhereHolds(where, row) ==
    IF where.clause = "0=1" THEN FALSE
    ELSE row[where.column] \in Range(where.params)

\* execute({'type': 'QUERY', 'where': {column, 'IN', val}}): cursor.fetchall()
ExecuteQueryIn(table, column, val) ==
    SelectSeq(table, LAMBDA row : WhereHolds(build_where_clause(column, val), row))

\* execute({'type': 'DELETE', 'where': {column, 'IN', val}}): the table after it.
ExecuteDeleteIn(table, column, val) ==
    SelectSeq(table, LAMBDA row : ~WhereHolds(build_where_clause(column, val), row))

\* execute({'type': 'QUERY', 'where': {column, 'LIKE', '%' + suffix}})
QueryLikeSuffix(table, column, suffix) ==
    SelectSeq(table, LAMBDA row : EndsWith(row[column], suffix))

\* execute({'type': 'INSERT', ...}) into a table whose column key is unique:
\* with ignore a row whose key is taken is dropped, without it the insert
\* raises IntegrityError.
RECURSIVE InsertUnique(_, _, _, _)
InsertUnique(table, data, key, ignore) ==
    IF data = <<>> THEN [rows |-> table, raised |-> FALSE]
    ELSE IF \E i \in 1..Len(table) : table[i][key] = Head(data)[key] THEN
        IF ignore THEN InsertUnique(table, Tail(data), key, ignore)
        ELSE [rows |-> table, raised |-> TRUE]
    ELSE InsertUnique(Append(table, Head(data)), Tail(data), key, ignore)

\* clear_all_data that leaves the recipes of reconstructed_docs in place.
clear_all_data_KeepDocs(store) ==
    [hash_index |-> <<>>, hash_graph |-> <<>>, hash_to_data |-> <<>>,
     reconstructed_docs |-> store.reconstructed_docs]

\* Repository.clear_all_data(): called by the ingestor, not defined in
\* database.py; it truncates the four primary relations.
clear_all_data(store) ==
    [hash_index |-> <<>>, hash_graph |-> <<>>, hash_to_data |-> <<>>,
     reconstructed_docs |-> <<>>]

\* Repository.save_processed_data(visitor): called by the ingestor, not defined
\* in database.py; it bulk-inserts the three batches (hash_to_data has hash as
\* its primary key, so repeated primitives are inserted with ignore).
save_processed_data(store, visitor) ==
    [hash_index |-> store.hash_index \o visitor.index_data,
     hash_graph |-> store.hash_graph \o visitor.graph_data,
     hash_to_data |-> InsertUnique(store.hash_to_data, visitor.primitive_data, 1, TRUE).rows,
     reconstructed_docs |-> store.reconstructed_docs]

Store ==
    [hash_index |-> hash_index, hash_graph |-> hash_graph,
     hash_to_data |-> hash_to_data, reconstructed_docs |-> reconstructed_docs]

(***************************************************************************)
(* reconstruction.py                                                       *)
(***************************************************************************)

ErrorText ==
    <<"P", "r", "i", "m", "i", "t", "i", "v", "e", " ", "d", "a", "t", "a", " ",
      "n", "o", "t", " ", "f", "o", "u", "n", "d", " ", "f", "o", "r", " ",
      "h", "a", "s", "h">>

\* {"error": "Primitive data not found for hash", "hash": target_hash}
Sentinel(target_hash) ==
    Dict(<<(<<"e", "r", "r", "o", "r">>), (<<"h", "a", "s", "h">>)>>,
         <<Prim(PStr(ErrorText)), Prim(PStr(target_hash))>>)

\* reconstructed_dict[key] = value
DictSet(d, key, value) ==
    IF \E i \in 1..Len(d.keys) : d.keys[i] = key
    THEN LET i == CHOOSE i \in 1..Len(d.keys) : d.keys[i] = key
         IN  [d EXCEPT !.kids[i] = value]
    ELSE [d EXCEPT !.keys = Append(@, key), !.kids = Append(@, value)]

NoValue == Prim(NoPrim)

PyNone == Prim(PNull)

MemoLookup(memo_cache, h) == (CHOOSE e \in memo_cache : e[1] = h)[2]

RECURSIVE reconstruct_from_hash(_, _, _)
RECURSIVE ReconstructChildren(_, _, _, _, _, _)
RECURSIVE ReconstructNext(_, _, _, _, _, _, _)

Returned(value, memo_cache) == [value |-> value, raised |-> "", memo_cache |-> memo_cache]

Raised(exception, memo_cache) ==
    [value |-> NoValue, raised |-> exception, memo_cache |-> memo_cache]

\* One step of the loop: r is the result of the recursive call for row i.
\* reconstructed_list[int(key)] = ... raises IndexError past the end.
ReconstructNext(repo, children, is_list, i, result, r, key) ==
    IF r.raised # "" THEN r
    ELSE IF ~is_list THEN
        ReconstructChildren(repo, children, is_list, r.memo_cache, i + 1,
                            DictSet(result, key, r.value))
    ELSE IF StrToInt(key) >= Len(result.kids) THEN Raised("IndexError", r.memo_cache)
    ELSE ReconstructChildren(repo, children, is_list, r.memo_cache, i + 1,
                             [result EXCEPT !.kids[StrToInt(key) + 1] = r.value])

\* The loop over the rows of one node, filling result (a list or a dict).
ReconstructChildren(repo, children, is_list, memo_cache, i, result) ==
    IF i > Len(children) THEN Returned(result, memo_cache)
    ELSE ReconstructNext(repo, children, is_list, i, result,
                         reconstruct_from_hash(repo, children[i][3], memo_cache),
                         children[i][2])

\* The leaf branch: the scalar stored for the hash, or the sentinel.
ReconstructLeaf(target_hash, memo_cache, data_row) ==
    IF data_row # <<>> THEN Returned(Prim(json_loads(data_row[1][2])), memo_cache)
    ELSE Returned(Sentinel(target_hash), memo_cache)

\* is_list = all(key.isdigit() for key, _ in children)
AllDigitKeys(children) == \A j \in 1..Len(children) : IsDigit(children[j][2])

ReconstructComposite(repo, children, is_list, memo_cache) ==
    ReconstructChildren(repo, children, is_list, memo_cache, 1,
                        IF is_list THEN List([j \in 1..Len(children) |-> PyNone])
                        ELSE Dict(<<>>, <<>>))

\* memo_cache[target_hash] = result; return result
Memoized(target_hash, r) ==
    IF r.raised # "" THEN r
    ELSE [r EXCEPT !.memo_cache = @ \cup {<<target_hash, r.value>>}]

\* children holds the hash_graph rows of target_hash.
ReconstructNode(repo, target_hash, memo_cache, children) ==
    IF children # <<>>
    THEN Memoized(target_hash,
             ReconstructComposite(repo, children, AllDigitKeys(children), memo_cache))
    ELSE Memoized(target_hash,
             ReconstructLeaf(target_hash, memo_cache,
                             QueryEq(repo.hash_to_data, 1, target_hash)))

\* repo is the store the function queries.
reconstruct_from_hash(repo, target_hash, memo_cache) ==
    IF \E e \in memo_cache : e[1] = target_hash
    THEN Returned(MemoLookup(memo_cache, target_hash), memo_cache)
    ELSE ReconstructNode(repo, target_hash, memo_cache,
                         QueryEq(repo.hash_graph, 1, target_hash))

\* Structural equality of JSON values: objects as member sets, arrays as
\* sequences, scalars by JSON type and value.
RECURSIVE StructEq(_, _)
StructEq(a, b) ==
    /\ a.kind = b.kind
    /\ a.kind = "prim" => a.prim = b.prim
    /\ a.kind = "list" =>
        /\ Len(a.kids) = Len(b.kids)
        /\ \A i \in 1..Len(a.kids) : StructEq(a.kids[i], b.kids[i])
    /\ a.kind = "dict" =>
        /\ Range(a.keys) = Range(b.keys)
        /\ \A i \in 1..Len(a.keys) : \A j \in 1..Len(b.keys) :
               a.keys[i] = b.keys[j] => StructEq(a.kids[i], b.kids[j])

(***************************************************************************)
(* analysis.py                                                             *)
(***************************************************************************)

RECURSIVE get_all_constituent_hashes(_, _, _)
RECURSIVE ConstituentChildren(_, _, _, _)

ConstituentChildren(repo, children, i, visited) ==
    IF i > Len(children) THEN visited
    ELSE ConstituentChildren(repo, children, i + 1,
             get_all_constituent_hashes(repo, children[i][3], visited))

\* all_hashes and visited hold the same fingerprints throughout; the value is
\* that set after the call.
get_all_constituent_hashes(repo, root_hash, visited) ==
    IF root_hash \in visited THEN visited
    ELSE ConstituentChildren(repo, QueryEq(repo.hash_graph, 1, root_hash), 1,
                             visited \cup {root_hash})

\* loc.split(':', 1)[0]
RECURSIVE BeforeColon(_)
BeforeColon(loc) ==
    IF loc = <<>> \/ Head(loc) = ":" THEN <<>>
    ELSE <<Head(loc)>> \o BeforeColon(Tail(loc))

Absent == [state |-> "absent", doc |-> NoValue]
EmptyFile == [state |-> "empty", doc |-> NoValue]
Garbage == [state |-> "garbage", doc |-> NoValue]
Json(doc) == [state |-> "json", doc |-> doc]

ReadFile(dir, filename) == IF filename \in DOMAIN dir THEN dir[filename] ELSE Absent

\* The first entry with the least xor_difference.
FirstLeast(results) ==
    CHOOSE i \in 1..Len(results) :
        /\ \A j \in 1..Len(results) :
               results[i].xor_difference <= results[j].xor_difference
        /\ \A j \in 1..(i - 1) : results[j].xor_difference > results[i].xor_difference

Without(seq, m) ==
    [j \in 1..(Len(seq) - 1) |-> IF j < m THEN seq[j] ELSE seq[j + 1]]

\* results.sort(key=lambda x: x['xor_difference']): a stable sort.
RECURSIVE SortByXor(_)
RECURSIVE SortByXorFrom(_, _)
SortByXorFrom(results, m) == <<results[m]>> \o SortByXor(Without(results, m))

SortByXor(results) ==
    IF results = <<>> THEN <<>> ELSE SortByXorFrom(results, FirstLeast(results))

CoverageEntry(filename, recon_hashes, source_hashes) ==
    [filename |-> filename,
     intersection |-> Cardinality(recon_hashes \cap source_hashes),
     xor_difference |->
         Cardinality((recon_hashes \ source_hashes) \cup (source_hashes \ recon_hashes))]

\* The body of the try for one file: nothing when reading, parsing or hashing
\* raises, one entry otherwise.
HashedEntry(filename, recon_hashes, v) ==
    IF v.raised THEN <<>> ELSE <<CoverageEntry(filename, recon_hashes, v.hash_set)>>

FileEntry(filename, recon_hashes, file) ==
    IF file.state # "json" THEN <<>>
    ELSE HashedEntry(filename, recon_hashes,
             AnalysisVisitAll({}, calculate_canonical_hash(file.doc, filename).calls))

\* The loop of step 3 over source_files.
RECURSIVE CoverageEntries(_, _, _, _)
CoverageEntries(dir, recon_hashes, source_files, i) ==
    IF i > Len(source_files) THEN <<>>
    ELSE FileEntry(source_files[i], recon_hashes, ReadFile(dir, source_files[i]))
         \o CoverageEntries(dir, recon_hashes, source_files, i + 1)

SourceFiles(locations) ==
    SortedStrs({BeforeColon(locations[j][2]) : j \in 1..Len(locations)})

CoverageOf(repo, dir, recon_hashes) ==
    [found |-> TRUE,
     results |-> SortByXor(CoverageEntries(dir, recon_hashes,
                     SourceFiles(QueryIn(repo.hash_index, 1, recon_hashes)), 1))]

CoverageFor(repo, dir, result) ==
    IF result = <<>> THEN [found |-> FALSE, results |-> <<>>]
    ELSE CoverageOf(repo, dir, get_all_constituent_hashes(repo, result[1][2], {}))

\* calculate_coverage(repo, doc_name): found says whether doc_name is in
\* reconstructed_docs, results is the sorted list that is reported.
calculate_coverage(repo, dir, doc_name) ==
    CoverageFor(repo, dir, QueryEq(repo.reconstructed_docs, 1, doc_name))

\* find_source_files(repo, doc_name): found says whether doc_name is in
\* reconstructed_docs, results is the sorted list of files that is printed.
SourceFilesFor(repo, result) ==
    IF result = <<>> THEN [found |-> FALSE, results |-> <<>>]
    ELSE [found |-> TRUE,
          results |-> SourceFiles(QueryIn(repo.hash_index, 1,
                          get_all_constituent_hashes(repo, result[1][2], {})))]

find_source_files(repo, doc_name) ==
    SourceFilesFor(repo, QueryEq(repo.reconstructed_docs, 1, doc_name))

NoPath == <<"N", "o", " ", "P", "a", "t", "h", " ", "F", "o", "u", "n", "d">>

Reversed(path) == [j \in 1..Len(path) |-> path[Len(path) + 1 - j]]

RECURSIVE Concat(_)
Concat(parts) == IF parts = <<>> THEN <<>> ELSE Head(parts) \o Concat(Tail(parts))

PathSegment(key_in_parent) ==
    IF IsDigit(key_in_parent) THEN <<"[">> \o key_in_parent \o <<"]">>
    ELSE <<".">> \o key_in_parent

\* EnqueueParents that follows only the first parent row of current_hash.
EnqueueParents_FirstOnly(rows, i, path, queue, visited) ==
    IF rows = <<>> \/ rows[1][1] \in visited
    THEN [queue |-> queue, visited |-> visited]
    ELSE [queue |-> Append(queue, <<rows[1][1], Append(path, PathSegment(rows[1][2]))>>),
          visited |-> visited \cup {rows[1][1]}]

\* The for loop over the parents of current_hash (rows of parent_hash,
\* child_key, child_hash): the queue and the visited set after it.
RECURSIVE EnqueueParents(_, _, _, _, _)
EnqueueParents(rows, i, path, queue, visited) ==
    IF i > Len(rows) THEN [queue |-> queue, visited |-> visited]
    ELSE IF rows[i][1] \notin visited
    THEN EnqueueParents(rows, i + 1, path,
             Append(queue, <<rows[i][1], Append(path, PathSegment(rows[i][2]))>>),
             visited \cup {rows[i][1]})
    ELSE EnqueueParents(rows, i + 1, path, queue, visited)

RECURSIVE PathSearch(_, _, _, _)
RECURSIVE PathSearchOn(_, _, _)
PathSearchOn(repo, parent_hash, e) == PathSearch(repo, parent_hash, e.queue, e.visited)

\* while queue: ... ; found tells which of the two reports is printed.
PathSearch(repo, parent_hash, queue, visited) ==
    IF queue = <<>> THEN [found |-> FALSE, printed |-> NoPath]
    ELSE IF Head(queue)[1] = parent_hash
    THEN [found |-> TRUE, printed |-> <<".">> \o Concat(Reversed(Head(queue)[2]))]
    ELSE PathSearchOn(repo, parent_hash,
             EnqueueParents(QueryEq(repo.hash_graph, 3, Head(queue)[1]), 1,
                            Head(queue)[2], Tail(queue), visited))

find_path_between_fragments(repo, parent_hash, child_hash) ==
    PathSearch(repo, parent_hash, <<(<<child_hash, <<>>>>)>>, {child_hash})

(***************************************************************************)
(* processing.py: the ingestor                                             *)
(***************************************************************************)

DotDb == <<".", "d", "b">>
DotPy == <<".", "p", "y">>

\* The files of the directory the loop gets past "continue" with: sorted,
\* without the reserved suffixes.
WalkedFiles(dir) ==
    SortedStrs({f \in DOMAIN dir :
                   /\ dir[f].state # "absent"
                   /\ ~EndsWith(f, DotDb)
                   /\ ~EndsWith(f, DotPy)})

\* The visitor calls of one run, file after file; an empty file and a file
\* that is not JSON contribute none.
RECURSIVE IngestCalls(_, _, _)
IngestCalls(dir, files, i) ==
    IF i > Len(files) THEN <<>>
    ELSE (IF dir[files[i]].state = "json"
          THEN calculate_canonical_hash(dir[files[i]].doc, files[i]).calls
          ELSE <<>>)
         \o IngestCalls(dir, files, i + 1)

\* The directory after the run: every file that was hashed is written back
\* from the in-memory document (json.dump(data, f, indent=2)).
RewrittenDir(dir) ==
    [f \in DOMAIN dir |->
        IF dir[f].state = "json" /\ f \in Range(WalkedFiles(dir))
        THEN Json(Stripped(dir[f].doc))
        ELSE dir[f]]

\* run_asset_processor(repo, root_dir): the store after the run.
\* if visitor.index_data: clear, save, commit; else nothing is written.
SaveCollected(store, visitor) ==
    IF visitor.index_data # <<>>
    THEN save_processed_data(clear_all_data(store), visitor)
    ELSE store

run_asset_processor(store, dir) ==
    SaveCollected(store, WriteVisitAll(EmptyBatches, IngestCalls(dir, WalkedFiles(dir), 1)))

(***************************************************************************)
(* commands/splice.py                                                      *)
(***************************************************************************)

RootSuffix == <<":", ".">>

DocName(i) == <<"d", "o", "c", "_">> \o IntToStr(i)

Column(rows, c) == {rows[j][c] : j \in 1..Len(rows)}

\* Command.execute of splice: reconstructed_docs after the command.
\* docs_to_save, from sorted(list(true_roots))
DocsToSave(sorted_roots) ==
    [j \in 1..Len(sorted_roots) |-> <<DocName(j), sorted_roots[j]>>]

\* SpliceRoots that keeps the candidates contained in other fragments.
SpliceRoots_KeepContained(repo, root_hashes) ==
    IF root_hashes = {} THEN repo.reconstructed_docs
    ELSE DocsToSave(SortedStrs(root_hashes))

\* From root_hashes on: nothing is written when there is no candidate.
SpliceRoots(repo, root_hashes) ==
    IF root_hashes = {} THEN repo.reconstructed_docs
    ELSE DocsToSave(SortedStrs(root_hashes
                               \ Column(QueryIn(repo.hash_graph, 3, root_hashes), 3)))

\* splice_execute without DISTINCT: one recipe per root location.
splice_execute_PerLocation(repo) ==
    DocsToSave([j \in 1..Len(QueryLikeSuffix(repo.hash_index, 2, RootSuffix)) |->
                   QueryLikeSuffix(repo.hash_index, 2, RootSuffix)[j][1]])

splice_execute(repo) ==
    SpliceRoots(repo, Column(QueryLikeSuffix(repo.hash_index, 2, RootSuffix), 1))

(***************************************************************************)
(* The operations: one action per call of a command's function             *)
(***************************************************************************)

\* What a call leaves behind for its caller: the value returned (value), what
\* it printed or collected (printed, results) and the exception that ended it
\* (raised, "" when it returned).
Out(cmd, arg, value, printed, results, raised) ==
    [cmd |-> cmd, arg |-> arg, value |-> value, printed |-> printed,
     results |-> results, raised |-> raised]

\* run_asset_processor(repo, root_dir), on a directory holding the files of dir.
Committed(store) ==
    /\ hash_index' = store.hash_index
    /\ hash_graph' = store.hash_graph
    /\ hash_to_data' = store.hash_to_data
    /\ reconstructed_docs' = store.reconstructed_docs

Process(dir) ==
    /\ fs' = RewrittenDir(dir)
    /\ Committed(run_asset_processor(Store, dir))
    /\ out' = Out("process", <<>>, NoValue, <<>>, <<>>, "")
    /\ UNCHANGED txn

\* Splice without the DELETE: the recipes are added to those already there.
Splice_Append ==
    /\ reconstructed_docs' = reconstructed_docs \o splice_execute(Store)
    /\ out' = Out("splice", <<>>, NoValue, <<>>, <<>>, "")
    /\ UNCHANGED <<fs, hash_index, hash_graph, hash_to_data, txn>>

\* Command.execute(repo, args) of splice
Splice ==
    /\ reconstructed_docs' = splice_execute(Store)
    /\ out' = Out("splice", <<>>, NoValue, <<>>, <<>>, "")
    /\ UNCHANGED <<fs, hash_index, hash_graph, hash_to_data, txn>>

\* Reconstruct that keeps what it found missing as a hash_to_data row.
Reconstruct_Caching(h) ==
    /\ out' = Out("reconstruct", <<h>>, NoValue, <<>>, <<>>, "")
    /\ hash_to_data' = Append(hash_to_data, <<h, <<"n", "u", "l", "l">>>>)
    /\ UNCHANGED <<fs, hash_index, hash_graph, reconstructed_docs, txn>>

\* reconstruct_from_hash(repo, h, memo_cache={}), as the reconstruct command calls it
ReconstructOut(h, r) == Out("reconstruct", <<h>>, r.value, <<>>, <<>>, r.raised)

Reconstruct(h) ==
    /\ out' = ReconstructOut(h, reconstruct_from_hash(Store, h, {}))
    /\ UNCHANGED <<fs, hash_index, hash_graph, hash_to_data, reconstructed_docs, txn>>

\* calculate_coverage(repo, doc_name), run in the directory that was ingested.
CoverageOut(doc_name, r) ==
    Out("coverage", <<doc_name>>, NoValue,
        IF r.found THEN <<>> ELSE <<"E", "r", "r", "o", "r">>, r.results, "")

Coverage(doc_name) ==
    /\ out' = CoverageOut(doc_name, calculate_coverage(Store, fs, doc_name))
    /\ UNCHANGED <<fs, hash_index, hash_graph, hash_to_data, reconstructed_docs, txn>>

\* find_source_files(repo, doc_name)
FindSources(doc_name) ==
    /\ out' = [CoverageOut(doc_name, find_source_files(Store, doc_name))
                   EXCEPT !.cmd = "find-sources"]
    /\ UNCHANGED <<fs, hash_index, hash_graph, hash_to_data, reconstructed_docs, txn>>

\* find_path_between_fragments(repo, p, c)
FindPath(p, c) ==
    /\ out' = Out("find-path", <<p, c>>, NoValue,
                  find_path_between_fragments(Store, p, c).printed, <<>>, "")
    /\ UNCHANGED <<fs, hash_index, hash_graph, hash_to_data, reconstructed_docs, txn>>

(***************************************************************************)
(* The inputs                                                              *)
(***************************************************************************)

FileA == <<"a">>
FileB == <<"b">>
FilePy == <<"s", ".", "p", "y">>
FileNames == {FileA, FileB, FilePy}

One == Prim(PInt(<<"1">>))
DocX == Dict(<<(<<"x">>)>>, <<One>>)
DocBig == Dict(<<(<<"k">>)>>, <<DocX>>)
DocColon == Dict(<<(<<":", ".">>)>>, <<DocX>>)

\* The directories process is run on: each data file is missing, empty, not
\* JSON, a scalar, a composite, a composite holding that composite, or one
\* holding it as the member named ":.".
DataContents ==
    {Absent, EmptyFile, Garbage, Json(One), Json(DocX), Json(DocBig), Json(DocColon)}

Dirs ==
    {d \in [FileNames -> DataContents] :
        /\ d[FilePy] \in {Absent, Json(DocX)}
        /\ d[FilePy] # Absent => d[FileB] = Absent}

UnknownHash == sha256_hash(<<"?">>)

\* The fingerprints a caller can name: those in the store, the root
\* fingerprints of the files of the directory, and one that is nowhere.
RootHashes(dir) ==
    {calculate_canonical_hash(dir[f].doc, f).hash :
        f \in {g \in DOMAIN dir : dir[g].state = "json"}}

StoreHashes == Column(hash_index, 1) \cup Column(hash_graph, 1) \cup Column(hash_graph, 3)

NamedHashes == StoreHashes \cup RootHashes(fs) \cup {UnknownHash}

MaxDocs == 2

DocNames == {DocName(i) : i \in 1..MaxDocs}

NoOut == Out("none", <<>>, NoValue, <<>>, <<>>, "")

\* No ingest is running.
TxnIdle == [pc |-> "idle", files |-> <<>>, i |-> 0, calls |-> <<>>, work |-> <<>>]

EmptyDir == [f \in FileNames |-> Absent]

Init ==
    /\ fs = EmptyDir
    /\ hash_index = <<>>
    /\ hash_graph = <<>>
    /\ hash_to_data = <<>>
    /\ reconstructed_docs = <<>>
    /\ out = NoOut
    /\ txn = TxnIdle

Next ==
    \/ \E dir \in Dirs : Process(dir)
    \/ Splice
    \/ \E h \in NamedHashes : Reconstruct(h)
    \/ \E n \in DocNames : Coverage(n)
    \/ \E n \in DocNames : FindSources(n)
    \/ \E p \in StoreHashes, c \in StoreHashes : FindPath(p, c)

Spec == Init /\ [][Next]_vars

(***************************************************************************)
(* One document: a generated document is put in file a, ingested and       *)
(* reconstructed.                                                          *)
(***************************************************************************)

MaxWidth == 2

Two == Prim(PInt(<<"2">>))
Three == Prim(PInt(<<"3">>))
PrimNodes == {One, Two, Three, Prim(PBool(TRUE)), Prim(PStr(<<"a">>))}

KeyX == <<"x">>
KeyY == <<"y">>
KeyK == <<"k">>
KeyNames == {KeyX, <<"0">>, <<"5">>}

SeqsOver(S) == UNION {[1..n -> S] : n \in 0..MaxWidth}

KeySeqs == {ks \in SeqsOver(KeyNames) : \A i, j \in 1..Len(ks) : ks[i] = ks[j] => i = j}

FlatLists == {List(vs) : vs \in SeqsOver(PrimNodes)}

FlatDicts == UNION {{Dict(ks, vs) : vs \in [1..Len(ks) -> PrimNodes]} : ks \in KeySeqs}

FlatComposites == FlatLists \cup FlatDicts

\* Scalars, composites of scalars, such a composite as the only child of a
\* dict or of a list, and a dict of a scalar and a list.
GenDocs ==
    PrimNodes \cup FlatComposites
    \cup {Dict(<<KeyK>>, <<c>>) : c \in FlatComposites}
    \cup {List(<<c>>) : c \in FlatComposites}
    \cup {Dict(<<KeyX, KeyY>>, <<p, l>>) : p \in PrimNodes, l \in FlatLists}

InitDoc ==
    /\ fs \in {[EmptyDir EXCEPT ![FileA] = Json(d)] : d \in GenDocs}
    /\ hash_index = <<>>
    /\ hash_graph = <<>>
    /\ hash_to_data = <<>>
    /\ reconstructed_docs = <<>>
    /\ out = NoOut
    /\ txn = TxnIdle

NextDoc ==
    \/ Process(fs)
    \/ \E h \in NamedHashes : Reconstruct(h)

SpecDoc == InitDoc /\ [][NextDoc]_vars

(***************************************************************************)
(* Two documents: a generated document is put in file a and a document     *)
(* related to it in file b; both are ingested and spliced.                 *)
(***************************************************************************)

PairPrims == {One, Two, Prim(PBool(TRUE))}

PairKeySeqs == {<<>>, <<KeyX>>, <<KeyY>>, <<KeyX, KeyY>>, <<KeyY, KeyX>>}

PairLists == {List(vs) : vs \in UNION {[1..n -> PairPrims] : n \in 0..MaxWidth}}

PairDicts == UNION {{Dict(ks, vs) : vs \in [1..Len(ks) -> PairPrims]} : ks \in PairKeySeqs}

PairDocs ==
    {One} \cup PairLists \cup PairDicts
    \cup {Dict(<<KeyK>>, <<c>>) : c \in PairLists \cup PairDicts}
    \cup {List(<<c>>) : c \in PairLists \cup PairDicts}
    \cup {Dict(<<KeyX, KeyY>>, <<p, l>>) : p \in PairPrims, l \in PairLists}

\* A document that shares no node with a document of PairDocs.
Other == List(<<Three>>)

\* The document with two adjacent elements of one of its arrays exchanged,
\* for every array (named by the jq path the hasher gives it) and every
\* adjacent pair of structurally distinct elements.
SwapAt(vs, i) ==
    [j \in 1..Len(vs) |-> IF j = i THEN vs[i + 1] ELSE IF j = i + 1 THEN vs[i] ELSE vs[j]]

RECURSIVE SwapsAt(_, _)
SwapsAt(node, path) ==
    (IF node.kind = "list"
     THEN {[at |-> path, doc |-> List(SwapAt(node.kids, i))] :
              i \in {k \in 1..(Len(node.kids) - 1) : ~StructEq(node.kids[k], node.kids[k + 1])}}
     ELSE {})
    \cup UNION {{[at |-> s.at, doc |-> [node EXCEPT !.kids[c.at] = s.doc]] :
                    s \in SwapsAt(c.node, c.path)} :
                c \in Range(ChildList(node, path))}

Swaps(doc) == {s.doc : s \in SwapsAt(doc, <<".">>)}

\* The documents whose children are chosen, child by child, from sets.
KidChoices(node, choices) ==
    {[node EXCEPT !.kids = f] :
        f \in {g \in [1..Len(node.kids) -> UNION Range(choices)] :
                  \A j \in 1..Len(node.kids) : g[j] \in choices[j]}}

\* The values a _sha256_hash member is given: a string, and an array that
\* holds a scalar of the document.
MarkValues == {Prim(PStr(<<"h">>)), List(<<One>>)}

WithMarks(node) ==
    {Dict(<<HASH_KEY>> \o node.keys, <<v>> \o node.kids) : v \in MarkValues}
    \cup {Dict(Append(node.keys, HASH_KEY), Append(node.kids, v)) : v \in MarkValues}

\* The document with a _sha256_hash member inserted into any of its objects.
RECURSIVE Marks(_)
MarksOf(node, unmarked) ==
    IF node.kind = "dict"
    THEN unmarked \cup UNION {WithMarks(u) : u \in unmarked}
    ELSE unmarked

Marks(node) ==
    IF node.kind = "prim" THEN {node}
    ELSE MarksOf(node, KidChoices(node, [j \in 1..Len(node.kids) |-> Marks(node.kids[j])]))

Marked(doc) == Marks(doc) \ {doc}

\* The document with the members of any of its objects in another order.
Reordered(node) ==
    {Dict([j \in 1..Len(node.keys) |-> node.keys[p[j]]],
          [j \in 1..Len(node.keys) |-> node.kids[p[j]]]) :
        p \in {q \in [1..Len(node.keys) -> 1..Len(node.keys)] :
                  \A i, j \in 1..Len(node.keys) : q[i] = q[j] => i = j}}

RECURSIVE Orders(_)
OrdersOf(node, chosen) ==
    IF node.kind = "dict" THEN UNION {Reordered(u) : u \in chosen} ELSE chosen

Orders(node) ==
    IF node.kind = "prim" THEN {node}
    ELSE OrdersOf(node, KidChoices(node, [j \in 1..Len(node.kids) |-> Orders(node.kids[j])]))

Permuted(doc) == Orders(doc) \ {doc}

\* The documents file b holds next to d in file a.
Related(d) ==
    {d, Other, Dict(<<KeyK>>, <<d>>)} \cup Swaps(d) \cup Marked(d) \cup Permuted(d)

PairDirs ==
    UNION {{[EmptyDir EXCEPT ![FileA] = Json(d), ![FileB] = Json(v)] : v \in Related(d)} :
           d \in PairDocs}

InitPair ==
    /\ fs \in PairDirs
    /\ hash_index = <<>>
    /\ hash_graph = <<>>
    /\ hash_to_data = <<>>
    /\ reconstructed_docs = <<>>
    /\ out = NoOut
    /\ txn = TxnIdle

NextPair ==
    \/ Process(fs)
    \/ Splice

SpecPair == InitPair /\ [][NextPair]_vars

(***************************************************************************)
(* The ingest step by step: run_asset_processor walks the files, then       *)
(* clears, bulk-inserts and commits on one connection; the four relations   *)
(* are the committed content, txn.work is what the connection has written   *)
(* and not committed.  An interrupted run closes the connection, which      *)
(* rolls the uncommitted writes back.                                       *)
(***************************************************************************)

TxnVisitor == WriteVisitAll(EmptyBatches, txn.calls)

\* run_asset_processor is called on a directory holding the files of dir.
TxnStart(dir) ==
    /\ txn.pc = "idle"
    /\ fs' = dir
    /\ txn' = [pc |-> "walk", files |-> WalkedFiles(dir), i |-> 0, calls |-> <<>>,
               work |-> Store]
    /\ out' = NoOut
    /\ UNCHANGED <<hash_index, hash_graph, hash_to_data, reconstructed_docs>>

TxnFileCalls(file, filename) ==
    IF file.state = "json" THEN calculate_canonical_hash(file.doc, filename).calls ELSE <<>>

TxnWritten(file) == IF file.state = "json" THEN Json(Stripped(file.doc)) ELSE file

\* One pass of the loop over the files: read, hash, write back.
TxnWalkFile ==
    /\ txn.pc = "walk"
    /\ txn.i < Len(txn.files)
    /\ fs' = [fs EXCEPT ![txn.files[txn.i + 1]] = TxnWritten(@)]
    /\ txn' = [txn EXCEPT !.i = @ + 1,
                          !.calls = @ \o TxnFileCalls(fs[txn.files[txn.i + 1]],
                                                      txn.files[txn.i + 1])]
    /\ UNCHANGED <<hash_index, hash_graph, hash_to_data, reconstructed_docs, out>>

\* else: "No data to save to database."
TxnNoData ==
    /\ txn.pc = "walk"
    /\ txn.i = Len(txn.files)
    /\ TxnVisitor.index_data = <<>>
    /\ txn' = TxnIdle
    /\ out' = Out("process", <<>>, NoValue, <<>>, <<>>, "")
    /\ UNCHANGED <<fs, hash_index, hash_graph, hash_to_data, reconstructed_docs>>

\* TxnClear on a connection that commits every statement.
TxnClear_Autocommit ==
    /\ txn.pc = "walk"
    /\ txn.i = Len(txn.files)
    /\ TxnVisitor.index_data # <<>>
    /\ txn' = [txn EXCEPT !.pc = "cleared", !.work = clear_all_data(@)]
    /\ Committed(clear_all_data(txn.work))
    /\ UNCHANGED <<fs, out>>

\* if visitor.index_data: repo.clear_all_data()
TxnClear ==
    /\ txn.pc = "walk"
    /\ txn.i = Len(txn.files)
    /\ TxnVisitor.index_data # <<>>
    /\ txn' = [txn EXCEPT !.pc = "cleared", !.work = clear_all_data(@)]
    /\ UNCHANGED <<fs, hash_index, hash_graph, hash_to_data, reconstructed_docs, out>>

\* repo.save_processed_data(visitor), one bulk insert after the other.
TxnInsertIndex ==
    /\ txn.pc = "cleared"
    /\ txn' = [txn EXCEPT !.pc = "index",
                          !.work.hash_index = save_processed_data(txn.work, TxnVisitor).hash_index]
    /\ UNCHANGED <<fs, hash_index, hash_graph, hash_to_data, reconstructed_docs, out>>

TxnInsertGraph ==
    /\ txn.pc = "index"
    /\ txn' = [txn EXCEPT !.pc = "graph",
                          !.work.hash_graph = save_processed_data(txn.work, TxnVisitor).hash_graph]
    /\ UNCHANGED <<fs, hash_index, hash_graph, hash_to_data, reconstructed_docs, out>>

TxnInsertData ==
    /\ txn.pc = "graph"
    /\ txn' = [txn EXCEPT !.pc = "data",
                          !.work.hash_to_data = save_processed_data(txn.work, TxnVisitor).hash_to_data]
    /\ UNCHANGED <<fs, hash_index, hash_graph, hash_to_data, reconstructed_docs, out>>

\* repo.commit()
TxnCommit ==
    /\ txn.pc = "data"
    /\ Committed(txn.work)
    /\ txn' = TxnIdle
    /\ out' = Out("process", <<>>, NoValue, <<>>, <<>>, "")
    /\ UNCHANGED fs

\* The run ends before its commit: the connection is closed and what it
\* wrote is rolled back.  out.arg tells the step that was reached.
TxnInterrupt ==
    /\ txn.pc # "idle"
    /\ txn' = TxnIdle
    /\ out' = Out("process", <<txn.pc>>, NoValue, <<>>, <<>>, "Interrupted")
    /\ UNCHANGED <<fs, hash_index, hash_graph, hash_to_data, reconstructed_docs>>

TxnSplice == txn.pc = "idle" /\ Splice

InitTxn == Init

NextTxn ==
    \/ \E dir \in Dirs : TxnStart(dir)
    \/ TxnWalkFile
    \/ TxnNoData
    \/ TxnClear
    \/ TxnInsertIndex
    \/ TxnInsertGraph
    \/ TxnInsertData
    \/ TxnCommit
    \/ TxnInterrupt
    \/ TxnSplice

SpecTxn == InitTxn /\ [][NextTxn]_vars

(***************************************************************************)
(* SpecGraph: calls on a repository whose hash_graph is any small table    *)
(* the schema admits (no column of hash_graph is unique, so rows may       *)
(* repeat and edges may form cycles). find_path_between_fragments runs     *)
(* one iteration of its while loop per step.                               *)
(***************************************************************************)

HashP == <<"p">>
HashQ == <<"q">>
HashR == <<"r">>
GraphHashes == {HashP, HashQ, HashR}

Key0 == <<"0">>
GraphKeys == {KeyX, Key0}

MaxEdges == 3

GraphRows == {<<p, k, c>> : p \in GraphHashes, k \in GraphKeys, c \in GraphHashes}

GraphTables == UNION {[1..n -> GraphRows] : n \in 0..MaxEdges}

\* queue = deque([(child_hash, [])]); visited = {child_hash}
PathStart(p, c) ==
    /\ txn.pc = "idle"
    /\ txn' = [pc |-> "search", parent_hash |-> p,
               queue |-> <<(<<c, <<>>>>)>>, visited |-> {c}]
    /\ out' = Out("find-path", <<p, c>>, NoValue, <<>>, <<>>, "")
    /\ UNCHANGED <<fs, hash_index, hash_graph, hash_to_data, reconstructed_docs>>

\* current_hash == parent_hash: the path is printed and the call returns.
PathFound ==
    /\ txn.pc = "search"
    /\ txn.queue # <<>>
    /\ Head(txn.queue)[1] = txn.parent_hash
    /\ out' = [out EXCEPT !.printed = <<".">> \o Concat(Reversed(Head(txn.queue)[2]))]
    /\ txn' = TxnIdle
    /\ UNCHANGED <<fs, hash_index, hash_graph, hash_to_data, reconstructed_docs>>

\* One iteration that pops current_hash and enqueues its unvisited parents.
PathExpand ==
    /\ txn.pc = "search"
    /\ txn.queue # <<>>
    /\ Head(txn.queue)[1] # txn.parent_hash
    /\ txn' = [pc |-> "search", parent_hash |-> txn.parent_hash]
                @@ EnqueueParents(QueryEq(hash_graph, 3, Head(txn.queue)[1]), 1,
                                  Head(txn.queue)[2], Tail(txn.queue), txn.visited)
    /\ UNCHANGED <<fs, hash_index, hash_graph, hash_to_data, reconstructed_docs, out>>

\* The queue is empty: "No Path Found" is printed.
PathNone ==
    /\ txn.pc = "search"
    /\ txn.queue = <<>>
    /\ out' = [out EXCEPT !.printed = NoPath]
    /\ txn' = TxnIdle
    /\ UNCHANGED <<fs, hash_index, hash_graph, hash_to_data, reconstructed_docs>>

PathStep == PathFound \/ PathExpand \/ PathNone

\* The lists a where clause with operator IN is given.
InLists == {<<>>, <<HashP, HashQ>>} \cup {<<h>> : h \in GraphHashes}

\* repo.execute of a QUERY on hash_graph with child_hash IN val
RepoQueryIn(val) ==
    /\ txn.pc = "idle"
    /\ out' = Out("query", val, NoValue, <<>>, ExecuteQueryIn(hash_graph, 3, val), "")
    /\ UNCHANGED <<fs, hash_index, hash_graph, hash_to_data, reconstructed_docs, txn>>

\* repo.execute of a DELETE on hash_graph with child_hash IN val
RepoDeleteIn(val) ==
    /\ txn.pc = "idle"
    /\ hash_graph' = ExecuteDeleteIn(hash_graph, 3, val)
    /\ out' = Out("delete", val, NoValue, <<>>, <<>>, "")
    /\ UNCHANGED <<fs, hash_index, hash_to_data, reconstructed_docs, txn>>

\* The frame of the caller once the call for its child number i is made.
Advanced(stack) ==
    [stack EXCEPT ![Len(stack)] = [children |-> @.children, i |-> @.i + 1]]

\* A call that queries the children before it looks at visited.
WalkCall_QueryFirst(t, stack, root_hash) ==
    IF root_hash \in t.visited
    THEN [t EXCEPT !.stack = stack, !.queried = Append(@, root_hash)]
    ELSE [t EXCEPT !.stack = Append(stack, [children |-> QueryEq(hash_graph, 1, root_hash),
                                            i |-> 1]),
                   !.visited = @ \cup {root_hash},
                   !.queried = Append(@, root_hash)]

\* get_all_constituent_hashes(repo, root_hash, all_hashes, visited) up to its
\* for loop: a visited root_hash returns at once, another one is added and
\* its children are queried. stack holds the for loops that are running,
\* queried the fingerprints whose children were asked for.
WalkCall(t, stack, root_hash) ==
    IF root_hash \in t.visited THEN [t EXCEPT !.stack = stack]
    ELSE [t EXCEPT !.stack = Append(stack, [children |-> QueryEq(hash_graph, 1, root_hash),
                                            i |-> 1]),
                   !.visited = @ \cup {root_hash},
                   !.queried = Append(@, root_hash)]

\* The outermost call: all_hashes = set(), visited = set()
WalkStart(root_hash) ==
    /\ txn.pc = "idle"
    /\ txn' = WalkCall([pc |-> "walk", stack |-> <<>>, visited |-> {}, queried |-> <<>>],
                       <<>>, root_hash)
    /\ out' = Out("constituents", <<root_hash>>, NoValue, <<>>, <<>>, "")
    /\ UNCHANGED <<fs, hash_index, hash_graph, hash_to_data, reconstructed_docs>>

\* The innermost for loop calls for its next child.
WalkChild ==
    /\ txn.pc = "walk"
    /\ txn.stack # <<>>
    /\ txn.stack[Len(txn.stack)].i <= Len(txn.stack[Len(txn.stack)].children)
    /\ txn' = WalkCall(txn, Advanced(txn.stack),
                  txn.stack[Len(txn.stack)].children[txn.stack[Len(txn.stack)].i][3])
    /\ UNCHANGED <<fs, hash_index, hash_graph, hash_to_data, reconstructed_docs, out>>

\* The innermost for loop is over: return all_hashes to the caller.
WalkReturn ==
    /\ txn.pc = "walk"
    /\ txn.stack # <<>>
    /\ txn.stack[Len(txn.stack)].i > Len(txn.stack[Len(txn.stack)].children)
    /\ txn' = [txn EXCEPT !.stack = SubSeq(@, 1, Len(@) - 1)]
    /\ UNCHANGED <<fs, hash_index, hash_graph, hash_to_data, reconstructed_docs, out>>

\* The outermost call has returned all_hashes.
WalkDone ==
    /\ txn.pc = "walk"
    /\ txn.stack = <<>>
    /\ out' = [out EXCEPT !.results = SortedStrs(txn.visited)]
    /\ txn' = TxnIdle
    /\ UNCHANGED <<fs, hash_index, hash_graph, hash_to_data, reconstructed_docs>>

WalkStep == WalkChild \/ WalkReturn \/ WalkDone

InitGraph ==
    /\ fs = EmptyDir
    /\ hash_index = <<>>
    /\ hash_graph \in GraphTables
    /\ hash_to_data = <<>>
    /\ reconstructed_docs = <<>>
    /\ out = NoOut
    /\ txn = TxnIdle

NextGraph ==
    \/ \E p \in GraphHashes, c \in GraphHashes : PathStart(p, c)
    \/ PathFound
    \/ PathExpand
    \/ PathNone
    \/ \E val \in InLists : RepoQueryIn(val)
    \/ \E val \in InLists : RepoDeleteIn(val)
    \/ \E r \in GraphHashes : WalkStart(r)
    \/ WalkChild
    \/ WalkReturn
    \/ WalkDone

SpecGraph == InitGraph /\ [][NextGraph]_vars

\* The interpreter keeps running the loop of a call that has started.
SpecGraphLive == SpecGraph /\ WF_vars(PathStep) /\ WF_vars(WalkStep)

(***************************************************************************)
(* Properties                                                              *)
(***************************************************************************)

EmptyStore ==
    [hash_index |-> <<>>, hash_graph |-> <<>>, hash_to_data |-> <<>>,
     reconstructed_docs |-> <<>>]

\* The visitor calls an ingest of dir makes.
AllCalls(dir) == IngestCalls(dir, WalkedFiles(dir), 1)

\* The store holds what an ingest of dir into an empty store leaves.
HoldsIngestOf(dir) == Store = run_asset_processor(EmptyStore, dir)

\* The files of dir that are parsed and hashed.
HashedFiles(dir) == {f \in Range(WalkedFiles(dir)) : dir[f].state = "json"}

RootHash(dir, f) == calculate_canonical_hash(dir[f].doc, f).hash

\* C1: after process has ingested a document D whose root fingerprint is R,
\* reconstruct_from_hash(R) returns, without raising, a value structurally
\* equal to D.
C1_RoundTrip ==
    \A f \in HashedFiles(fs) :
        (/\ HoldsIngestOf(fs)
         /\ out.cmd = "reconstruct"
         /\ out.arg = <<RootHash(fs, f)>>)
        => (out.raised = "" /\ StructEq(out.value, fs[f].doc))

SameFingerprintIffEqual(calls) ==
    \A i, j \in 1..Len(calls) :
        (calls[i].hash_val = calls[j].hash_val)
        <=> StructEq(Stripped(calls[i].node), Stripped(calls[j].node))

\* C2: two subtrees the hasher has fingerprinted have the same fingerprint if
\* and only if they are structurally equal.
C2_FingerprintIffStructEq ==
    out.cmd = "process" => SameFingerprintIffEqual(AllCalls(fs))

\* C3: reconstruct_from_hash returns a value and raises nothing, for a known
\* or an unknown fingerprint; a fingerprint with no hash_graph row and no
\* hash_to_data row yields the sentinel.
C3_NeverFailsHard ==
    out.cmd = "reconstruct" =>
        /\ out.raised = ""
        /\ (/\ QueryEq(hash_graph, 1, out.arg[1]) = <<>>
            /\ QueryEq(hash_to_data, 1, out.arg[1]) = <<>>)
           => out.value = Sentinel(out.arg[1])

RootVisitOnly(calls, h, location) ==
    /\ Len(calls) = 1
    /\ calls[1].hash_val = h
    /\ calls[1].is_primitive
    /\ calls[1].location_str = location
    /\ calls[1].parent_hash = <<>>
    /\ ~calls[1].child_key_given

\* C4: for a document whose root is a primitive the visitor receives exactly
\* one visit, for the root, with is_primitive true, location '<file>:.' and
\* no parent; so the ingest records a hash_index and a hash_to_data row for it.
C4_PrimitiveRootVisited ==
    \A f \in HashedFiles(fs) :
        (out.cmd = "process" /\ fs[f].doc.kind = "prim") =>
            /\ RootVisitOnly(calculate_canonical_hash(fs[f].doc, f).calls,
                             RootHash(fs, f), f \o <<":", ".">>)
            /\ \E i \in 1..Len(hash_index) :
                   hash_index[i] = <<RootHash(fs, f), f \o <<":", ".">>>>
            /\ QueryEq(hash_to_data, 1, RootHash(fs, f)) # <<>>

\* The immediate children of a composite, as child keys.
ChildKeys(node) ==
    IF node.kind = "dict" THEN Range(Stripped(node).keys)
    ELSE {IntToStr(j - 1) : j \in 1..Len(node.kids)}

OneRowPerChild(calls) ==
    \A i \in 1..Len(calls) :
        ~calls[i].is_primitive =>
            /\ Len(QueryEq(hash_graph, 1, calls[i].hash_val))
                   = Cardinality(ChildKeys(calls[i].node))
            /\ Column(QueryEq(hash_graph, 1, calls[i].hash_val), 2)
                   = ChildKeys(calls[i].node)

\* C5: after a completed process run, for every composite node with
\* fingerprint H, hash_graph has exactly one row per immediate child keyed by
\* H, also when the composite occurs several times.
C5_OneGraphRowPerChild ==
    (out.cmd = "process" /\ HoldsIngestOf(fs)) => OneRowPerChild(AllCalls(fs))

\* All nodes of a document, the root first.
RECURSIVE NodesOf(_)
NodesOf(node) ==
    <<node>> \o Concat([j \in 1..Len(node.kids) |-> NodesOf(node.kids[j])])

PairwiseDistinct(nodes) ==
    \A i, j \in 1..Len(nodes) : i # j => ~StructEq(nodes[i], nodes[j])

LeafCount(nodes) == Cardinality({i \in 1..Len(nodes) : nodes[i].kind = "prim"})

NoRowTwice(table) == \A i, j \in 1..Len(table) : table[i] = table[j] => i = j

RowCountsOf(nodes) ==
    /\ Len(hash_index) = Len(nodes)
    /\ NoRowTwice(hash_index)
    /\ Len(hash_graph) = Len(nodes) - 1
    /\ Len(hash_to_data) = LeafCount(nodes)

\* C6: after process has ingested a single file holding a composite document
\* with pairwise distinct nodes, hash_index has one row per node and none
\* twice, hash_graph one row per edge, hash_to_data one row per leaf.
C6_OneRowPerNode ==
    (/\ out.cmd = "process"
     /\ HashedFiles(fs) = {FileA}
     /\ IsComposite(fs[FileA].doc)
     /\ PairwiseDistinct(NodesOf(fs[FileA].doc)))
    => RowCountsOf(NodesOf(fs[FileA].doc))

\* The jq path of a child: '.key' or '.[i]' appended to the parent's path,
\* with a single dot after the root.
JqChild(path, segment) ==
    IF path = <<".">> THEN <<".">> \o segment ELSE path \o <<".">> \o segment

RECURSIVE JqPaths(_, _)
JqPaths(node, path) ==
    {path}
    \cup UNION {JqPaths(node.kids[j],
                        JqChild(path, IF node.kind = "dict" THEN node.keys[j]
                                      ELSE <<"[">> \o IntToStr(j - 1) \o <<"]">>)) :
                j \in 1..Len(node.kids)}

JqLocations(dir) ==
    UNION {{f \o <<":">> \o p : p \in JqPaths(Stripped(dir[f].doc), <<".">>)} :
           f \in HashedFiles(dir)}

\* C7: every location the hasher passes to the visitor is '<file>:<path>',
\* where the root's path is '.' and any other path appends '.key' or '.[i]'
\* per step behind a single leading dot.
C7_LocationForm ==
    out.cmd = "process" =>
        \A i \in 1..Len(AllCalls(fs)) : AllCalls(fs)[i].location_str \in JqLocations(fs)

\* The rows that make child a member of parent under a key that is not all digits.
MemberRows(parent, child) ==
    SelectSeq(hash_graph,
              LAMBDA row : row[1] = parent /\ row[3] = child /\ ~IsDigit(row[2]))

\* C8: for an ingested object P whose member k (k not all digits) is the
\* composite X, find-path from P to X prints '.k'.
C8_PathToMember ==
    (/\ out.cmd = "find-path"
     /\ out.arg[1] # out.arg[2]
     /\ QueryEq(hash_graph, 1, out.arg[2]) # <<>>
     /\ MemberRows(out.arg[1], out.arg[2]) # <<>>)
    => \E k \in Column(MemberRows(out.arg[1], out.arg[2]), 2) : out.printed = <<".">> \o k

\* The fingerprints of all nodes of a file.
FileHashes(dir, f) ==
    {calculate_canonical_hash(dir[f].doc, f).calls[i].hash_val :
        i \in 1..Len(calculate_canonical_hash(dir[f].doc, f).calls)}

ContributingFiles(constituents) ==
    {BeforeColon(hash_index[i][2]) :
        i \in {j \in 1..Len(hash_index) : hash_index[j][1] \in constituents}}

CoverageReported(results, constituents) ==
    /\ \A f \in ContributingFiles(constituents) :
           ReadFile(fs, f).state = "json" =>
               \E i \in 1..Len(results) :
                   results[i] = CoverageEntry(f, constituents, FileHashes(fs, f))
    /\ \A i, j \in 1..Len(results) :
           i < j => results[i].xor_difference <= results[j].xor_difference

\* C9: for a conceptual document with constituent set C, calculate_coverage
\* reports one entry for every contributing source file that parses as JSON,
\* with intersection |C /\ S_file| and xor_difference |C xor S_file|, ordered
\* by xor_difference ascending.
C9_CoverageEntries ==
    (out.cmd = "coverage" /\ QueryEq(reconstructed_docs, 1, out.arg[1]) # <<>>) =>
        CoverageReported(out.results,
            get_all_constituent_hashes(Store,
                QueryEq(reconstructed_docs, 1, out.arg[1])[1][2], {}))

\* C10: after every completed process run, whatever the store held before,
\* the three relations hold exactly the rows derived from the files of the
\* directory and reconstructed_docs is empty, also when no file yields a
\* hash event.
C10_FullRebuild == out.cmd = "process" => HoldsIngestOf(fs)

\* The fingerprints that have a hash_index location ending in ':.'.
RootCandidates ==
    {hash_index[i][1] :
        i \in {j \in 1..Len(hash_index) :
                  /\ Len(hash_index[j][2]) >= 2
                  /\ SubSeq(hash_index[j][2], Len(hash_index[j][2]) - 1,
                            Len(hash_index[j][2])) = <<":", ".">>}}

TrueRoots == RootCandidates \ {hash_graph[i][3] : i \in 1..Len(hash_graph)}

NamedInOrder(docs, roots) ==
    /\ Len(docs) = Cardinality(roots)
    /\ \A i \in 1..Len(docs) :
           /\ docs[i][1] = <<"d", "o", "c", "_">> \o IntToStr(i)
           /\ docs[i][2] \in roots
    /\ \A i, j \in 1..Len(docs) : i < j => StrLess(docs[i][2], docs[j][2])

FileCalls(f) == calculate_canonical_hash(fs[f].doc, f).calls

\* The fingerprint the visitor was given for the node at a location.
HashAt(calls, location) ==
    CHOOSE h \in {calls[i].hash_val : i \in 1..Len(calls)} :
        \E i \in 1..Len(calls) : calls[i].location_str = location /\ calls[i].hash_val = h

\* C12: when file b holds the document of file a with two adjacent,
\* structurally distinct elements of one array exchanged, that array has a
\* different fingerprint in the two files.
C12_ArrayOrderSensitive ==
    out.cmd = "process" =>
        \A s \in SwapsAt(fs[FileA].doc, <<".">>) :
            s.doc = fs[FileB].doc =>
                HashAt(FileCalls(FileA), FileA \o <<":">> \o s.at)
                    # HashAt(FileCalls(FileB), FileB \o <<":">> \o s.at)

\* The fingerprint of every node of a document, by the node's jq path.
NodeHashes(f, doc) ==
    {<<SubSeq(c.location_str, Len(f) + 2, Len(c.location_str)), c.hash_val>> :
        c \in Range(calculate_canonical_hash(doc, f).calls)}

SameFingerprints(a, b) ==
    /\ calculate_canonical_hash(a, FileA).hash = calculate_canonical_hash(b, FileB).hash
    /\ NodeHashes(FileA, a) = NodeHashes(FileB, b)

\* The fingerprint the visitor is given at every location.
Recorded(calls) == {<<c.location_str, c.hash_val>> : c \in Range(calls)}

\* C13: when process hashes a file b that holds the document of file a with
\* _sha256_hash members inserted into some of its objects, the two roots get
\* the same fingerprint and so does every node; and the files as process
\* leaves them hash to the same fingerprints as the files it found.
C13_StripIdempotent ==
    [][out'.cmd = "process" =>
          /\ fs[FileB].doc \in Marked(fs[FileA].doc)
                 => SameFingerprints(fs[FileA].doc, fs[FileB].doc)
          /\ Recorded(AllCalls(fs')) = Recorded(AllCalls(fs))]_vars

\* Process has ingested two files that hold the same composite once the
\* _sha256_hash members are stripped, and has recorded both.
C13_Witness ==
    /\ out.cmd = "process"
    /\ IsComposite(fs[FileA].doc)
    /\ fs[FileB].doc = fs[FileA].doc
    /\ \E i \in 1..Len(hash_index) : hash_index[i][2] = FileB \o <<":", ".">>

\* C14: when file b holds the document of file a with the members of some of
\* its objects in another order, the two roots get the same fingerprint and so
\* does every node.
C14_KeyOrderIndependent ==
    (out.cmd = "process" /\ fs[FileB].doc \in Permuted(fs[FileA].doc))
        => SameFingerprints(fs[FileA].doc, fs[FileB].doc)

\* Process has ingested an object and the same object with its members reversed.
C14_Witness ==
    /\ out.cmd = "process"
    /\ fs[FileA].doc.kind = "dict"
    /\ Len(fs[FileA].doc.keys) = 2
    /\ fs[FileB].doc = Dict(Reversed(fs[FileA].doc.keys), Reversed(fs[FileA].doc.kids))
    /\ Len(QueryEq(hash_index, 1, RootHash(fs, FileA))) = 2

\* The root locations hash_index holds for a fingerprint.
RootLocations(h) ==
    {hash_index[i][2] :
        i \in {j \in 1..Len(hash_index) :
                  /\ hash_index[j][1] = h
                  /\ Len(hash_index[j][2]) >= 2
                  /\ SubSeq(hash_index[j][2], Len(hash_index[j][2]) - 1,
                            Len(hash_index[j][2])) = <<":", ".">>}}

\* C15: after process has ingested two files whose roots are structurally
\* equal composites and splice has run, reconstructed_docs has exactly one
\* row and hash_index holds two root locations, one per file, for the shared
\* root fingerprint.
C15_Dedup ==
    (/\ out.cmd = "splice"
     /\ hash_index # <<>>
     /\ hash_index = run_asset_processor(EmptyStore, fs).hash_index
     /\ IsComposite(fs[FileA].doc)
     /\ StructEq(fs[FileA].doc, fs[FileB].doc))
    => /\ Len(reconstructed_docs) = 1
       /\ reconstructed_docs[1][2] = RootHash(fs, FileA)
       /\ RootLocations(RootHash(fs, FileA)) = {FileA \o <<":", ".">>, FileB \o <<":", ".">>}

\* Splice has run on the ingest of an object and of the same object with its
\* members in the other order.
C15_Witness ==
    /\ out.cmd = "splice"
    /\ hash_index # <<>>
    /\ fs[FileA].doc.kind = "dict"
    /\ Len(fs[FileA].doc.keys) = 2
    /\ fs[FileB].doc = Dict(Reversed(fs[FileA].doc.keys), Reversed(fs[FileA].doc.kids))
    /\ Len(reconstructed_docs) = 1

C17_AtomicReplace ==
    [][txn.pc # "idle" =>
          \/ Store' = Store
          \/ txn'.pc = "idle" /\ out'.raised = "" /\ Store' = run_asset_processor(Store, fs)]_vars

\* A run was interrupted between its bulk inserts, and the committed
\* relations still hold an earlier ingest.
C17_Witness ==
    /\ out.cmd = "process"
    /\ out.raised = "Interrupted"
    /\ out.arg = <<"index">>
    /\ hash_index # <<>>
    /\ hash_to_data # <<>>

\* C18: splice changes no row of hash_index, hash_graph or hash_to_data, and
\* reconstruction, find-sources (with the constituent walk it makes), coverage
\* and find-path leave all four relations unchanged.
C18_Frame ==
    [][/\ out'.cmd = "splice" => UNCHANGED <<hash_index, hash_graph, hash_to_data>>
       /\ out'.cmd \in {"reconstruct", "find-sources", "coverage", "find-path"}
             => UNCHANGED <<hash_index, hash_graph, hash_to_data, reconstructed_docs>>]_vars

\* find-sources has listed the files of a recipe that splice wrote.
C18_Witness ==
    /\ out.cmd = "find-sources"
    /\ out.results # <<>>
    /\ reconstructed_docs # <<>>
    /\ hash_graph # <<>>

\* The hashes reached from the hashes of set by following rows of hash_graph
\* from child_hash to parent_hash zero or more times.
RECURSIVE Upward(_)
Upward(set) ==
    IF {hash_graph[j][1] : j \in {i \in 1..Len(hash_graph) : hash_graph[i][3] \in set}}
           \subseteq set
    THEN set
    ELSE Upward(set \cup {hash_graph[j][1] :
                            j \in {i \in 1..Len(hash_graph) : hash_graph[i][3] \in set}})

\* h is reached from one of its own parents: it lies on a cycle.
OnCycle(h) == h \in Upward(Column(QueryEq(hash_graph, 3, h), 1))

\* The sequences of rows of hash_graph that lead downward from p to c.
Chains(p, c) ==
    {chain \in UNION {[1..n -> 1..Len(hash_graph)] : n \in 0..Cardinality(GraphHashes)} :
        /\ IF chain = <<>> THEN p = c
           ELSE /\ hash_graph[chain[1]][1] = p
                /\ hash_graph[chain[Len(chain)]][3] = c
        /\ \A j \in 1..(Len(chain) - 1) :
              hash_graph[chain[j]][3] = hash_graph[chain[j + 1]][1]}

\* The path as it is printed for the keys of a chain.
PrintedChain(chain) ==
    <<".">> \o Concat([j \in 1..Len(chain) |-> PathSegment(hash_graph[chain[j]][2])])

PathReport(p, c) ==
    /\ out.printed # NoPath <=> p \in Upward({c})
    /\ out.printed # NoPath => \E chain \in Chains(p, c) : out.printed = PrintedChain(chain)
    /\ out.printed = find_path_between_fragments(Store, p, c).printed

\* C19: a search that has started ends; it reports a path iff the parent is
\* reachable upward from the child, "No Path Found" otherwise, and the keys of
\* a reported path lead downward from the parent to the child.
C19_FindPath ==
    /\ [](out.cmd = "find-path" /\ txn.pc = "idle" => PathReport(out.arg[1], out.arg[2]))
    /\ (txn.pc = "search") ~> (txn.pc = "idle")

\* A path of two keys has been reported in a graph where the parent lies on a
\* cycle.
C19_Witness ==
    /\ out.cmd = "find-path"
    /\ txn.pc = "idle"
    /\ out.printed = <<".", ".", "x", "[", "0", "]">>
    /\ OnCycle(out.arg[1])

\* C20: a QUERY whose where clause is IN with an empty list returns no row, a
\* DELETE with such a clause leaves the table as it was, and neither raises;
\* with a list that is not empty both act on the rows whose value is in it.
C20_EmptyIn ==
    [][/\ out'.cmd = "query" =>
             /\ out'.raised = ""
             /\ out'.arg = <<>> => out'.results = <<>>
             /\ out'.results = QueryIn(hash_graph, 3, Range(out'.arg))
       /\ out'.cmd = "delete" =>
             /\ out'.raised = ""
             /\ out'.arg = <<>> => hash_graph' = hash_graph
             /\ hash_graph' = SelectSeq(hash_graph, LAMBDA row : row[3] \notin Range(out'.arg))]_vars

\* A DELETE with an empty list has run on a table that holds rows.
C20_Witness ==
    /\ out.cmd = "delete"
    /\ out.arg = <<>>
    /\ Len(hash_graph) = MaxEdges

(***************************************************************************)
(* SpecMain: main of kitsugi.py, run on a store that calls of              *)
(* run_asset_processor and of splice's execute have left. txn holds the    *)
(* process: connected, or exited with its status.                          *)
(***************************************************************************)

MainCommands ==
    {"process", "splice", "reconstruct", "export", "coverage", "find-sources", "find-path"}

\* The commands whose execute is declared (self, repo, args, parser=None);
\* the others declare (self, repo, args).
TakesParser(cmd) == cmd \in {"coverage", "find-sources"}

\* The arguments argparse hands over for a command.
MainArgs(cmd) ==
    IF cmd \in {"coverage", "find-sources", "export"} THEN {<<n>> : n \in DocNames}
    ELSE IF cmd = "reconstruct" THEN {<<h>> : h \in NamedHashes}
    ELSE {<<>>}

Exited(cmd, conn, invoked, status) ==
    [pc |-> "exited", command |-> cmd, conn |-> conn, invoked |-> invoked,
     status |-> status]

\* conn = connect_to_db(args.db, read_only); if not conn: sys.exit(1)
MainConnect(cmd, arg, opens) ==
    /\ txn.pc \in {"idle", "exited"}
    /\ txn' = IF opens THEN [pc |-> "connected", command |-> cmd, conn |-> "open"]
              ELSE Exited(cmd, "none", FALSE, 1)
    /\ out' = Out(cmd, arg, NoValue, <<>>, <<>>, "")
    /\ UNCHANGED <<fs, hash_index, hash_graph, hash_to_data, reconstructed_docs>>

\* command_to_run.execute(repo, args, parser) in try/except/finally: a call
\* with three arguments of an execute that declares two raises TypeError
\* before its body runs.
MainExecute ==
    /\ txn.pc = "connected"
    /\ IF ~TakesParser(txn.command)
       THEN /\ out' = [out EXCEPT !.raised = "TypeError"]
            /\ txn' = Exited(txn.command, "closed", FALSE, 1)
       ELSE /\ out' = [(IF txn.command = "coverage"
                        THEN CoverageOut(out.arg[1], calculate_coverage(Store, fs, out.arg[1]))
                        ELSE CoverageOut(out.arg[1], find_source_files(Store, out.arg[1])))
                          EXCEPT !.cmd = txn.command]
            /\ txn' = Exited(txn.command, "closed", TRUE, 0)
    /\ UNCHANGED <<fs, hash_index, hash_graph, hash_to_data, reconstructed_docs>>

InitMain ==
    \E dir \in Dirs, spliced \in BOOLEAN :
        /\ fs = RewrittenDir(dir)
        /\ hash_index = run_asset_processor(EmptyStore, dir).hash_index
        /\ hash_graph = run_asset_processor(EmptyStore, dir).hash_graph
        /\ hash_to_data = run_asset_processor(EmptyStore, dir).hash_to_data
        /\ reconstructed_docs =
               IF spliced THEN splice_execute(run_asset_processor(EmptyStore, dir))
               ELSE <<>>
        /\ out = NoOut
        /\ txn = TxnIdle

NextMain ==
    \/ \E cmd \in MainCommands, opens \in BOOLEAN :
          \E arg \in MainArgs(cmd) : MainConnect(cmd, arg, opens)
    \/ MainExecute

SpecMain == InitMain /\ [][NextMain]_vars

\* The command's own operation, called on the store with these arguments,
\* ends in an exception.
OperationRaises(cmd, arg) ==
    CASE cmd = "reconstruct" -> reconstruct_from_hash(Store, arg[1], {}).raised # ""
      [] cmd = "export" ->
            /\ QueryEq(reconstructed_docs, 1, arg[1]) # <<>>
            /\ reconstruct_from_hash(Store, QueryEq(reconstructed_docs, 1, arg[1])[1][2],
                                     {}).raised # ""
      [] OTHER -> FALSE

\* C21: once main has opened the store it invokes the command's operation,
\* the exit status is 0 exactly when that operation raises nothing, and the
\* connection is closed before exit; a store that cannot be opened gives a
\* status that is not 0.
C21_MainRunsCommand ==
    [][/\ txn.pc = "connected" =>
             /\ txn'.invoked
             /\ txn'.status = 0 <=> ~OperationRaises(txn.command, out.arg)
             /\ txn'.conn = "closed"
       /\ (txn'.pc = "exited" /\ txn'.conn = "none") => txn'.status # 0]_vars

\* The hashes reached from the hashes of set by following rows of hash_graph
\* from parent_hash to child_hash zero or more times.
RECURSIVE Downward(_)
Downward(set) ==
    IF Column(QueryIn(hash_graph, 1, set), 3) \subseteq set THEN set
    ELSE Downward(set \cup Column(QueryIn(hash_graph, 1, set), 3))

\* C22: a walk that has started ends; no fingerprint has its children queried
\* twice; the set returned holds the root and what is reachable from it
\* downward, nothing else.
C22_ConstituentWalk ==
    /\ [](txn.pc = "walk" =>
             /\ \A i, j \in 1..Len(txn.queried) : txn.queried[i] = txn.queried[j] => i = j
             /\ Range(txn.queried) = txn.visited)
    /\ [](out.cmd = "constituents" /\ txn.pc = "idle" =>
             /\ Range(out.results) = Downward({out.arg[1]})
             /\ Range(out.results) = get_all_constituent_hashes(Store, out.arg[1], {}))
    /\ (txn.pc = "walk") ~> (txn.pc = "idle")

\* A walk from a root on a cycle has returned three fingerprints.
C22_Witness ==
    /\ out.cmd = "constituents"
    /\ txn.pc = "idle"
    /\ OnCycle(out.arg[1])
    /\ Len(out.results) = 3

\* The fingerprint of a node's own canonical form: what the dict, list and
\* primitive branches compute when no memo_cache entry is ever found.
RECURSIVE OwnHash(_)
OwnChildHashes(children) == [j \in 1..Len(children) |-> OwnHash(children[j].node)]

OwnHash(node) ==
    IF IsComposite(node)
    THEN sha256_hash(CanonicalString(node.kind, ChildList(node, <<>>),
                                     OwnChildHashes(ChildList(node, <<>>))))
    ELSE sha256_hash(json_dumps(node.prim))

\* C23: every fingerprint the traversal hands to the visitor, with its memo
\* cache in use, is the fingerprint of that node's own canonical form.
C23_MemoPureOptimization ==
    out.cmd = "process" =>
        \A i \in 1..Len(AllCalls(fs)) :
            AllCalls(fs)[i].hash_val = OwnHash(AllCalls(fs)[i].node)

\* C24: every fingerprint splice selects as a candidate root, one with a
\* hash_index location that ends in ':.', is the fingerprint of the root node
\* of a file that was ingested.
C24_CandidatesAreRoots ==
    out.cmd = "splice" =>
        Column(QueryLikeSuffix(hash_index, 2, RootSuffix), 1)
            \subseteq {RootHash(fs, f) : f \in HashedFiles(fs)}

\* C25: whatever process and splice runs have completed, every row of
\* reconstructed_docs names a fingerprint that has a root location in
\* hash_index and is no child_hash of hash_graph, and no two rows share a
\* doc_name or a root_hash.
C25_RecipesNeverStale ==
    /\ \A i \in 1..Len(reconstructed_docs) : reconstructed_docs[i][2] \in TrueRoots
    /\ \A i, j \in 1..Len(reconstructed_docs) :
          (\/ reconstructed_docs[i][1] = reconstructed_docs[j][1]
           \/ reconstructed_docs[i][2] = reconstructed_docs[j][2]) => i = j

\* A process run that found nothing to save has completed on a store that
\* holds two recipes.
C25_Witness ==
    /\ out.cmd = "process"
    /\ Len(reconstructed_docs) = 2
    /\ HashedFiles(fs) = {}

====
